---- MODULE Spec2Model ----
(***************************************************************************)
(* A model of chi-http-slog (src/httplog.go): the request-logging          *)
(* middleware adapter for go-chi built on log/slog.                        *)
(*                                                                         *)
(* Strings that the code only copies are TLA+ strings.  Header names, on   *)
(* which the code computes (strings.ToLower, map lookup), are sequences of *)
(* one-character strings, so that lower-casing is computed per character.  *)
(* A slog.Attr is a record [key, kind, val]; a *slog.Logger handle is the  *)
(* sequence of attributes accumulated by With, in order.                   *)
(***************************************************************************)
EXTENDS Integers, Sequences, FiniteSets, TLC

VARIABLES
    heap,      \* the Go maps allocated so far: map reference -> set of keys
    s,         \* the caller's map handed to WithSensitive (a reference, 0 = nil)
    opt,       \* the *loggerOptions under construction, then captured
    nopts,     \* options applied so far by evaluateLoggerOptions
    phase,     \* "options" | "built" | "crashed" (RequestLogger panicked)
    entries,   \* the *LogEntry objects allocated so far
    req,       \* per request: the inbound *http.Request (NoReq before arrival)
    ctx,       \* per request: the LogEntry in its context (0 = none)
    pc,        \* per request: position of its handling flow
    hist,      \* per request: what the handler chain attached, in order
    failed,    \* per request: a helper panicked into the caller
    sink,      \* the records handed to the slog handler, in order, each with
               \* the request it belongs to and the header map Write was given
    flows,     \* sub-task flows of request 1 attaching attributes concurrently
    arg,       \* input of the pure function under check
    res        \* its result

vars == <<heap, s, opt, nopts, phase, entries, req, ctx, pc, hist, failed,
          sink, flows, arg, res>>

lifecycleVars == <<heap, s, opt, nopts, phase, entries, req, ctx, pc, hist,
                   failed, sink, flows>>

None == "none"
NoRes == [done |-> FALSE]

----------------------------------------------------------------------------
(* Bounds *)

MaxStatus == 600
StatusBelow == 2
MaxVals == 2
MaxOpts == 2
MaxReqs == 2
MaxAttrs == 2
MaxFlows == 2

----------------------------------------------------------------------------
(* Strings the code computes on *)

UpperToLower ==
    [A |-> "a", B |-> "b", C |-> "c", D |-> "d", E |-> "e", F |-> "f",
     G |-> "g", H |-> "h", I |-> "i", J |-> "j", K |-> "k", L |-> "l",
     M |-> "m", N |-> "n", O |-> "o", P |-> "p", Q |-> "q", R |-> "r",
     S |-> "s", T |-> "t", U |-> "u", V |-> "v", W |-> "w", X |-> "x",
     Y |-> "y", Z |-> "z"]

\* strings.ToLower on ASCII names: each upper-case letter is replaced.
ToLower(name) ==
    [i \in 1..Len(name) |->
        IF name[i] \in DOMAIN UpperToLower THEN UpperToLower[name[i]] ELSE name[i]]

\* the three keys WithSensitive adds
authorization == <<"a","u","t","h","o","r","i","z","a","t","i","o","n">>
cookie == <<"c","o","o","k","i","e">>
setcookie == <<"s","e","t","-","c","o","o","k","i","e">>
DefaultSensitive == {authorization, cookie, setcookie}

\* header names as they arrive (net/http canonical form, or set by hand)
HAuthorization == <<"A","u","t","h","o","r","i","z","a","t","i","o","n">>
HCookie == <<"C","o","o","k","i","e">>
HSetCookie == <<"S","e","t","-","C","o","o","k","i","e">>
HToken == <<"T","o","k","e","n">>
HXTag == <<"X","-","T","a","g">>
hxtag == <<"x","-","t","a","g">>
token == <<"t","o","k","e","n">>

RECURSIVE Join(_, _)
\* strings.Join(v, sep)
Join(v, sep) ==
    IF Len(v) = 0 THEN ""
    ELSE IF Len(v) = 1 THEN v[1]
    ELSE v[1] \o sep \o Join(Tail(v), sep)

----------------------------------------------------------------------------
(* slog attributes and handles *)

slogString(k, v) == [key |-> k, kind |-> "string", val |-> v]
slogInt(k, n) == [key |-> k, kind |-> "int", val |-> n]
\* Value.isEmptyGroup: a group without members
isEmptyGroup(a) == a.kind = "group" /\ Len(a.val) = 0
keepsMember(a) == ~isEmptyGroup(a)

slogGroup_keepEmpty(k, as) == [key |-> k, kind |-> "group", val |-> as]

\* slog.Group(key, args...): GroupValue removes the members that are empty
\* groups when the group is built
slogGroup(k, as) == [key |-> k, kind |-> "group", val |-> SelectSeq(as, keepsMember)]

\* (*slog.Logger).With: a new handle carrying the old attributes and the new
With(l, as) == l \o as

----------------------------------------------------------------------------
(* Severity Mapper *)

LevelInfo == 0
LevelWarn == 4
LevelError == 8

toLogLevel_lt500(status) ==
    IF status <= 0 THEN LevelWarn
    ELSE IF status < 400 THEN LevelInfo
    ELSE IF status >= 400 /\ status < 500 THEN LevelWarn
    ELSE IF status > 500 THEN LevelError
    ELSE LevelInfo

toLogLevel(status) ==
    IF status <= 0 THEN LevelWarn
    ELSE IF status < 400 THEN LevelInfo
    ELSE IF status >= 400 /\ status < 500 THEN LevelWarn
    ELSE IF status >= 500 THEN LevelError
    ELSE LevelInfo

----------------------------------------------------------------------------
(* Header Redactor *)

RECURSIVE headerLoop_rawkey(_, _, _, _, _)
headerLoop_rawkey(header, leak, sensitive, order, acc) ==
    IF order = <<>> THEN acc
    ELSE LET v == header[Head(order)]
             k == ToLower(Head(order))
             ok == Head(order) \in sensitive
             rest == Tail(order)
         IN  IF ok /\ ~leak
               THEN headerLoop_rawkey(header, leak, sensitive, rest, acc)
             ELSE IF Len(v) = 0
               THEN headerLoop_rawkey(header, leak, sensitive, rest, acc)
             ELSE IF Len(v) = 1
               THEN headerLoop_rawkey(header, leak, sensitive, rest,
                                      Append(acc, slogString(k, v[1])))
             ELSE headerLoop_rawkey(header, leak, sensitive, rest,
                     Append(acc, slogString(k, "[" \o Join(v, "], [") \o "]")))

RECURSIVE headerLoop(_, _, _, _, _)
\* the range loop of httpHeaderAttrs, visiting the keys in the given order
headerLoop(header, leak, sensitive, order, acc) ==
    IF order = <<>> THEN acc
    ELSE LET v == header[Head(order)]
             k == ToLower(Head(order))
             ok == k \in sensitive
             rest == Tail(order)
         IN  IF ok /\ ~leak
               THEN headerLoop(header, leak, sensitive, rest, acc)
             ELSE IF Len(v) = 0
               THEN headerLoop(header, leak, sensitive, rest, acc)
             ELSE IF Len(v) = 1
               THEN headerLoop(header, leak, sensitive, rest,
                               Append(acc, slogString(k, v[1])))
             ELSE headerLoop(header, leak, sensitive, rest,
                     Append(acc, slogString(k, "[" \o Join(v, "], [") \o "]")))

httpHeaderAttrs_rawkey(header, leak, sensitive, order) ==
    slogGroup("headers", headerLoop_rawkey(header, leak, sensitive, order, <<>>))

\* header: name -> sequence of values; sensitive: the keys of the map (a nil
\* map has none); order: the order in which range visits the keys, which Go
\* leaves unspecified.
httpHeaderAttrs(header, leak, sensitive, order) ==
    slogGroup("headers", headerLoop(header, leak, sensitive, order, <<>>))

\* the orders in which a range loop may visit the keys of a map
Orders(keys) ==
    {o \in [1..Cardinality(keys) -> keys] : \A i, j \in DOMAIN o : i # j => o[i] # o[j]}

----------------------------------------------------------------------------
(* Inputs *)

NilMap == 0

\* the sets a caller may hand to WithSensitive (besides nil)
CallerSets == {{}, {token}}

BaseLoggers == {<<>>, <<slogString("service", "hello")>>}

Q1 == [method |-> "GET", uri |-> "/hello?x=1", host |-> "example.com",
       path |-> "/hello", proto |-> "HTTP/1.1", remote |-> "10.0.0.1:5000",
       id |-> "",
       header |-> (HAuthorization :> <<"secret">>)]
Q2 == [method |-> "POST", uri |-> "/login", host |-> "example.org",
       path |-> "/login", proto |-> "HTTP/2.0", remote |-> "10.0.0.2:6000",
       id |-> "host/abc-000002",
       header |-> (HToken :> <<"t0", "t1">>)]
Q3 == [method |-> "GET", uri |-> "/", host |-> "example.com",
       path |-> "/", proto |-> "HTTP/1.1", remote |-> "10.0.0.3:7000",
       id |-> "host/abc-000003",
       header |-> (HAuthorization :> <<"secret">> @@ HXTag :> <<"a", "b">>)]
Requests == <<Q1, Q2>>
NoReq == [method |-> "", uri |-> "", host |-> "", path |-> "", proto |-> "",
          remote |-> "", id |-> "", header |-> <<>>]

Reqs == 1..MaxReqs
\* the request that arrives as number r
Inbound(r) == Requests[((r - 1) % Len(Requests)) + 1]

\* the attributes handlers attach
AdHocAttrs == <<slogString("user", "alice"), slogInt("attempt", 3),
                slogString("route", "login")>>
\* with several requests in flight, the handler of request r attaches them in
\* turn, starting at the r-th
AdHoc(r, k) == AdHocAttrs[((r + k - 1) % Len(AdHocAttrs)) + 1]

\* what a handler panics with, and the stack Recoverer captures
BoomPanic == [kind |-> "string", str |-> "boom", num |-> 0,
              stack |-> "goroutine 7 [running]:"]
PanicValues == {BoomPanic, [kind |-> "int", str |-> "", num |-> 7, stack |-> ""]}

WriteStatuses == {0, 200, 404, 500}
WriteBytes == {42}
ResponseHeaders == {<<>>, (HSetCookie :> <<"sid=2">>),
                    (HSetCookie :> <<"sid=2">> @@ HXTag :> <<"v">>)}

\* http.StatusText: the reason phrase, "" for a code it does not know
StatusText(status) ==
    CASE status = 100 -> "Continue"
      [] status = 200 -> "OK"
      [] status = 204 -> "No Content"
      [] status = 301 -> "Moved Permanently"
      [] status = 400 -> "Bad Request"
      [] status = 404 -> "Not Found"
      [] status = 500 -> "Internal Server Error"
      [] status = 503 -> "Service Unavailable"
      [] OTHER -> ""

\* fmt.Sprintf("%+v", v) of a panic value
SprintfPlusV(p) == IF p.kind = "int" THEN ToString(p.num) ELSE p.str

\* the keys of a Go map given by reference; reading a nil map finds nothing
MapKeys(h, ref) == IF ref = NilMap THEN {} ELSE h[ref]

----------------------------------------------------------------------------
(* Log Entry *)

\* (le *LogEntry).req: the id and the request group go onto the handle
LogEntry_req(h, le, r, order) ==
    LET l1 == IF r.id # "" THEN With(le.l, <<slogString("id", r.id)>>) ELSE le.l
        requestAttr ==
            <<slogString("uri", r.uri), slogString("method", r.method)>>
            \o (IF ~le.concise
                  THEN <<slogString("host", r.host),
                         slogString("path", r.path),
                         slogString("proto", r.proto),
                         slogString("remote", r.remote),
                         httpHeaderAttrs(r.header, le.leak, MapKeys(h, le.sensitive), order)>>
                  ELSE <<>>)
    IN  [le EXCEPT !.l = With(l1, <<slogGroup("request", requestAttr)>>)]

\* (o *loggerOptions).NewLogEntry: a new entry from the captured options
NewLogEntry(h, o, r, order) ==
    LogEntry_req(h, [l |-> o.l, msg |-> "", concise |-> o.concise,
                     sensitive |-> o.sensitive, leak |-> o.leak], r, order)

LogEntry_Panic_fresh(le, p) ==
    [le EXCEPT !.l = <<slogString("stacktrace", p.stack),
                       slogString("panic", SprintfPlusV(p))>>]

\* (le *LogEntry).Panic: the entry afterwards
LogEntry_Panic(le, p) ==
    [le EXCEPT !.l = With(le.l, <<slogString("stacktrace", p.stack),
                                  slogString("panic", SprintfPlusV(p))>>)]

\* (le *LogEntry).Write: the entry afterwards
LogEntry_Write_entry(h, le, status, bytes, header, order) ==
    LET responseAttr ==
            <<slogInt("size", bytes),
              slogGroup("status", <<slogInt("code", status),
                                    slogString("msg", StatusText(status))>>)>>
            \o (IF ~le.concise
                  THEN <<httpHeaderAttrs(header, le.leak, MapKeys(h, le.sensitive), order)>>
                  ELSE <<>>)
    IN  [le EXCEPT !.l = With(le.l, <<slogGroup("response", responseAttr)>>)]

\* (le *LogEntry).Write: the one record handed to LogAttrs
LogEntry_Write_record(le1, status) ==
    LET msg0 == ToString(status) \o " " \o StatusText(status)
        msg == IF le1.msg # "" THEN msg0 \o " - " \o le1.msg ELSE msg0
    IN  [level |-> toLogLevel(status), msg |-> msg, attrs |-> le1.l]

----------------------------------------------------------------------------
(* Options and construction: evaluateLoggerOptions, RequestLogger *)

WithLogger(l) ==
    /\ opt' = [opt EXCEPT !.l = l]
    /\ UNCHANGED <<heap, phase>>

WithConcise(concise) ==
    /\ opt' = [opt EXCEPT !.concise = concise]
    /\ UNCHANGED <<heap, phase>>

WithLeak(leakSensitiveData) ==
    /\ opt' = [opt EXCEPT !.leak = leakSensitiveData]
    /\ UNCHANGED <<heap, phase>>

\* WithSensitive(s): o.sensitive becomes a fresh map (empty for a nil s, a copy
\* of s otherwise); the three default keys are then stored into s itself,
\* which panics ("assignment to entry in nil map") when s is nil.
WithSensitive ==
    LET fresh == Len(heap) + 1
        copy == IF s = NilMap THEN {} ELSE heap[s]
        heap1 == Append(heap, copy)
    IN  /\ opt' = [opt EXCEPT !.sensitive = fresh]
        /\ IF s = NilMap
             THEN /\ heap' = heap1
                  /\ phase' = "crashed"
             ELSE /\ heap' = [heap1 EXCEPT ![s] = @ \cup DefaultSensitive]
                  /\ phase' = phase

\* one turn of the loop of evaluateLoggerOptions
ApplyLogger ==
    /\ phase = "options" /\ nopts < MaxOpts
    /\ \E l \in BaseLoggers : WithLogger(l)
    /\ nopts' = nopts + 1
    /\ UNCHANGED <<s, entries, req, ctx, pc, hist, failed, sink, flows, arg, res>>

ApplyConcise ==
    /\ phase = "options" /\ nopts < MaxOpts
    /\ \E b \in BOOLEAN : WithConcise(b)
    /\ nopts' = nopts + 1
    /\ UNCHANGED <<s, entries, req, ctx, pc, hist, failed, sink, flows, arg, res>>

ApplyLeak ==
    /\ phase = "options" /\ nopts < MaxOpts
    /\ \E b \in BOOLEAN : WithLeak(b)
    /\ nopts' = nopts + 1
    /\ UNCHANGED <<s, entries, req, ctx, pc, hist, failed, sink, flows, arg, res>>

ApplySensitive ==
    /\ phase = "options" /\ nopts < MaxOpts
    /\ WithSensitive
    /\ nopts' = nopts + 1
    /\ UNCHANGED <<s, entries, req, ctx, pc, hist, failed, sink, flows, arg, res>>

\* RequestLogger: the options are copied into the value handed to
\* middleware.RequestLogger; the middleware exists from here on.
RequestLogger ==
    /\ phase = "options"
    /\ phase' = "built"
    /\ nopts' = 0
    /\ opt' = [l |-> opt.l, concise |-> opt.concise,
               sensitive |-> opt.sensitive, leak |-> opt.leak]
    /\ UNCHANGED <<heap, s, entries, req, ctx, pc, hist, failed,
                   sink, flows, arg, res>>

\* the caller goes on using its own map after construction
CallerChangesMap ==
    /\ phase = "built" /\ s # NilMap
    /\ hxtag \notin heap[s]
    /\ heap' = [heap EXCEPT ![s] = @ \cup {hxtag}]
    /\ UNCHANGED <<s, opt, nopts, phase, entries, req, ctx, pc, hist, failed,
                   sink, flows, arg, res>>

----------------------------------------------------------------------------
(* The handler chain (go-chi middleware.RequestLogger, Recoverer) *)

Arrive_reuse(r, q) ==
    /\ phase = "built" /\ pc[r] = "idle"
    /\ \E order \in Orders(DOMAIN q.header) :
          IF entries = <<>>
            THEN /\ entries' = Append(entries, NewLogEntry(heap, opt, q, order))
                 /\ ctx' = [ctx EXCEPT ![r] = Len(entries) + 1]
            ELSE /\ entries' = [entries EXCEPT ![1] = LogEntry_req(heap, @, q, order)]
                 /\ ctx' = [ctx EXCEPT ![r] = 1]
    /\ req' = [req EXCEPT ![r] = q]
    /\ pc' = [pc EXCEPT ![r] = "handler"]
    /\ UNCHANGED <<heap, s, opt, nopts, phase, hist, failed, sink, flows, arg, res>>

\* a request enters the logging middleware: NewLogEntry, WithLogEntry
Arrive(r, q) ==
    /\ phase = "built" /\ pc[r] = "idle"
    /\ \E order \in Orders(DOMAIN q.header) :
          entries' = Append(entries, NewLogEntry(heap, opt, q, order))
    /\ req' = [req EXCEPT ![r] = q]
    /\ ctx' = [ctx EXCEPT ![r] = Len(entries) + 1]
    /\ pc' = [pc EXCEPT ![r] = "handler"]
    /\ UNCHANGED <<heap, s, opt, nopts, phase, hist, failed, sink, flows, arg, res>>

\* a request is served by a chain in which the logging middleware is not installed
ArriveBare(r, q) ==
    /\ phase = "built" /\ pc[r] = "idle"
    /\ req' = [req EXCEPT ![r] = q]
    /\ pc' = [pc EXCEPT ![r] = "handler"]
    /\ UNCHANGED <<heap, s, opt, nopts, phase, entries, ctx, hist, failed,
                   sink, flows, arg, res>>

\* LogEntrySetAttr(r, attr), called by a handler of request r
LogEntrySetAttr(r, attr) ==
    /\ pc[r] = "handler" /\ Len(hist[r]) < MaxAttrs
    /\ hist' = [hist EXCEPT ![r] = Append(@, attr)]
    /\ IF ctx[r] # 0
         THEN entries' = [entries EXCEPT ![ctx[r]].l = With(@, <<attr>>)]
         ELSE UNCHANGED entries
    /\ UNCHANGED <<heap, s, opt, nopts, phase, req, ctx, pc, failed, sink,
                   flows, arg, res>>

\* GetLogEntry(r), called by a handler of request r: middleware.GetLogEntry
\* yields a nil interface when the context holds no entry, and the unchecked
\* assertion .(*LogEntry) on it panics.
GetLogEntry(r) ==
    /\ pc[r] = "handler"
    /\ IF ctx[r] # 0
         THEN UNCHANGED <<failed, pc>>
         ELSE /\ failed' = [failed EXCEPT ![r] = TRUE]
              /\ pc' = [pc EXCEPT ![r] = "aborted"]
    /\ UNCHANGED <<heap, s, opt, nopts, phase, entries, req, ctx, hist, sink,
                   flows, arg, res>>

Panic_emits(r, p) ==
    /\ pc[r] = "handler" /\ ctx[r] # 0
    /\ entries' = [entries EXCEPT ![ctx[r]] = LogEntry_Panic(@, p)]
    /\ sink' = Append(sink, [r |-> r, header |-> <<>>, level |-> LevelError,
                              msg |-> SprintfPlusV(p),
                              attrs |-> LogEntry_Panic(entries[ctx[r]], p).l])
    /\ hist' = [hist EXCEPT ![r] = Append(@, p)]
    /\ pc' = [pc EXCEPT ![r] = "recovered"]
    /\ UNCHANGED <<heap, s, opt, nopts, phase, req, ctx, failed, flows, arg, res>>

\* the handler panics; Recoverer finds the entry and calls its Panic
Panic(r, p) ==
    /\ pc[r] = "handler" /\ ctx[r] # 0
    /\ entries' = [entries EXCEPT ![ctx[r]] = LogEntry_Panic(@, p)]
    /\ hist' = [hist EXCEPT ![r] = Append(@, p)]
    /\ pc' = [pc EXCEPT ![r] = "recovered"]
    /\ UNCHANGED <<heap, s, opt, nopts, phase, req, ctx, failed, sink,
                   flows, arg, res>>

\* the deferred entry.Write of middleware.RequestLogger
Write(r, status, bytes, header, order) ==
    /\ pc[r] \in {"handler", "recovered"} /\ ctx[r] # 0
    /\ LET le1 == LogEntry_Write_entry(heap, entries[ctx[r]], status, bytes, header, order)
       IN  /\ entries' = [entries EXCEPT ![ctx[r]] = le1]
           /\ sink' = Append(sink, [r |-> r, header |-> header]
                                    @@ LogEntry_Write_record(le1, status))
    /\ pc' = [pc EXCEPT ![r] = "done"]
    /\ UNCHANGED <<heap, s, opt, nopts, phase, req, ctx, hist, failed,
                   flows, arg, res>>

\* the handler of a request without the middleware returns
ReturnBare(r) ==
    /\ pc[r] = "handler" /\ ctx[r] = 0
    /\ pc' = [pc EXCEPT ![r] = "done"]
    /\ UNCHANGED <<heap, s, opt, nopts, phase, entries, req, ctx, hist, failed,
                   sink, flows, arg, res>>

----------------------------------------------------------------------------
(* The lifecycle specification *)

NoFlows == [f \in 1..MaxFlows |-> [pc |-> "idle", local |-> <<>>, raced |-> FALSE]]

InitLifecycle ==
    /\ \/ s = NilMap /\ heap = <<>>
       \/ s = 1 /\ \E c \in CallerSets : heap = <<c>>
    /\ opt = [l |-> <<>>, concise |-> FALSE, sensitive |-> NilMap, leak |-> FALSE]
    /\ nopts = 0
    /\ phase = "options"
    /\ entries = <<>>
    /\ req = [r \in Reqs |-> NoReq]
    /\ ctx = [r \in Reqs |-> 0]
    /\ pc = [r \in Reqs |-> "idle"]
    /\ hist = [r \in Reqs |-> <<>>]
    /\ failed = [r \in Reqs |-> FALSE]
    /\ sink = <<>>
    /\ flows = NoFlows

Init ==
    /\ InitLifecycle
    /\ arg = None
    /\ res = NoRes

\* construction of one middleware, then one request with every input
Next ==
    \/ ApplyLogger
    \/ ApplyConcise
    \/ ApplyLeak
    \/ ApplySensitive
    \/ RequestLogger
    \/ CallerChangesMap
    \/ \E q \in {Q1, Q2, Q3} : Arrive(1, q)
    \/ \E q \in {Q1, Q2} : ArriveBare(1, q)
    \/ \E a \in {AdHocAttrs[1], AdHocAttrs[2]} : LogEntrySetAttr(1, a)
    \/ GetLogEntry(1)
    \/ \E p \in PanicValues : Panic(1, p)
    \/ \E status \in WriteStatuses, bytes \in WriteBytes, header \in ResponseHeaders :
          \E order \in Orders(DOMAIN header) : Write(1, status, bytes, header, order)
    \/ ReturnBare(1)

Spec == Init /\ [][Next]_vars

----------------------------------------------------------------------------
(* Several requests in flight through one middleware *)

\* The middleware as built by RequestLogger(), and as built by
\* RequestLogger(WithLogger(l), WithSensitive(s)) for s = {"token"}.  Request
\* r is Inbound(r); its handler attaches AdHoc(r, 0), AdHoc(r, 1), ...; a
\* normal return is written with 200, a recovered panic with 500.
InitConcurrent ==
    /\ \/ /\ s = NilMap /\ heap = <<>>
          /\ opt = [l |-> <<>>, concise |-> FALSE, sensitive |-> NilMap, leak |-> FALSE]
       \/ /\ s = 1 /\ heap = <<{token} \cup DefaultSensitive, {token}>>
          /\ opt = [l |-> <<slogString("service", "hello")>>, concise |-> FALSE,
                    sensitive |-> 2, leak |-> FALSE]
    /\ nopts = 0
    /\ phase = "built"
    /\ entries = <<>>
    /\ req = [r \in Reqs |-> NoReq]
    /\ ctx = [r \in Reqs |-> 0]
    /\ pc = [r \in Reqs |-> "idle"]
    /\ hist = [r \in Reqs |-> <<>>]
    /\ failed = [r \in Reqs |-> FALSE]
    /\ sink = <<>>
    /\ flows = NoFlows
    /\ arg = None
    /\ res = NoRes

NextConcurrent ==
    \/ CallerChangesMap
    \/ \E r \in Reqs : Arrive(r, Inbound(r))
    \/ \E r \in Reqs : LogEntrySetAttr(r, AdHoc(r, Len(hist[r])))
    \/ \E r \in Reqs : Panic(r, BoomPanic)
    \/ \E r \in Reqs, bytes \in WriteBytes :
          Write(r, IF pc[r] = "recovered" THEN 500 ELSE 200, bytes,
                HSetCookie :> <<"sid=2">>, <<HSetCookie>>)

SpecConcurrent == InitConcurrent /\ [][NextConcurrent]_vars

----------------------------------------------------------------------------
(* Concurrent sub-tasks of one request attaching attributes *)

\* the attribute sub-task f attaches
FlowAttr(f) == slogInt("task", f)

\* LogEntrySetAttr in sub-task f of request 1, first half: entry.l is read.
\* raced records that another sub-task was between its read and its write.
FlowRead(f) ==
    /\ pc[1] = "handler" /\ ctx[1] # 0
    /\ flows[f].pc = "idle"
    /\ flows' = [flows EXCEPT ![f] =
                    [pc |-> "read", local |-> entries[ctx[1]].l,
                     raced |-> \E g \in DOMAIN flows : g # f /\ flows[g].pc = "read"]]
    /\ UNCHANGED <<heap, s, opt, nopts, phase, entries, req, ctx, pc, hist,
                   failed, sink, arg, res>>

FlowWrite_reread(f) ==
    /\ pc[1] = "handler" /\ ctx[1] # 0
    /\ flows[f].pc = "read"
    /\ entries' = [entries EXCEPT ![ctx[1]].l = With(@, <<FlowAttr(f)>>)]
    /\ flows' = [flows EXCEPT ![f].pc = "done"]
    /\ UNCHANGED <<heap, s, opt, nopts, phase, req, ctx, pc, hist, failed, sink,
                   arg, res>>

\* second half: entry.l is replaced by With(attr) of the handle read before
FlowWrite(f) ==
    /\ pc[1] = "handler" /\ ctx[1] # 0
    /\ flows[f].pc = "read"
    /\ entries' = [entries EXCEPT ![ctx[1]].l = With(flows[f].local, <<FlowAttr(f)>>)]
    /\ flows' = [flows EXCEPT ![f].pc = "done"]
    /\ UNCHANGED <<heap, s, opt, nopts, phase, req, ctx, pc, hist, failed, sink,
                   arg, res>>

\* the handler returns once its sub-tasks are through; the deferred Write runs
WriteAfterFlows(status, bytes, header, order) ==
    /\ \A f \in DOMAIN flows : flows[f].pc = "done"
    /\ Write(1, status, bytes, header, order)
    /\ UNCHANGED flows

NextRace ==
    \/ ApplyLogger
    \/ ApplyConcise
    \/ ApplyLeak
    \/ ApplySensitive
    \/ RequestLogger
    \/ \E q \in {Q1, Q2, Q3} : Arrive(1, q)
    \/ \E f \in 1..MaxFlows : FlowRead(f)
    \/ \E f \in 1..MaxFlows : FlowWrite(f)
    \/ \E status \in WriteStatuses, bytes \in WriteBytes, header \in ResponseHeaders :
          \E order \in Orders(DOMAIN header) : WriteAfterFlows(status, bytes, header, order)

SpecRace == Init /\ [][NextRace]_vars

----------------------------------------------------------------------------
(* The pure functions on their own *)

Statuses == (0 - StatusBelow)..MaxStatus

InitLevel ==
    /\ InitLifecycle /\ s = NilMap
    /\ arg \in Statuses
    /\ res = NoRes

ApplyToLogLevel ==
    /\ ~res.done
    /\ res' = [done |-> TRUE, val |-> toLogLevel(arg)]
    /\ UNCHANGED <<arg, lifecycleVars>>

SpecLevel == InitLevel /\ [][ApplyToLogLevel]_vars

HeaderNames == {HAuthorization, HSetCookie, HXTag, hxtag}
ValuePool == <<"a", "b", "c", "d">>
\* the value sequences a header may carry: none, one, several
ValueSeqs == {SubSeq(ValuePool, 1, n) : n \in 0..MaxVals}
HeaderCollections ==
    UNION {[names -> ValueSeqs] : names \in SUBSET HeaderNames}
SensitiveSets == SUBSET {authorization, hxtag, HXTag}

InitHeaders ==
    /\ InitLifecycle /\ s = NilMap
    /\ arg \in [header : HeaderCollections, leak : BOOLEAN, sensitive : SensitiveSets]
    /\ res = NoRes

ApplyHttpHeaderAttrs ==
    /\ ~res.done
    /\ \E order \in Orders(DOMAIN arg.header) :
          res' = [done |-> TRUE,
                  val |-> httpHeaderAttrs(arg.header, arg.leak, arg.sensitive, order)]
    /\ UNCHANGED <<arg, lifecycleVars>>

SpecHeaders == InitHeaders /\ [][ApplyHttpHeaderAttrs]_vars

----------------------------------------------------------------------------
(* Reading records *)

\* the positions of the attributes of as that carry key k
At(as, k) == {i \in DOMAIN as : as[i].key = k}
Has(as, k) == At(as, k) # {}
\* the attribute of as with key k (the first, if several)
Get(as, k) == as[CHOOSE i \in At(as, k) : \A j \in At(as, k) : i <= j]
Keys(as) == [i \in DOMAIN as |-> as[i].key]
SameAttr(a, b) == a.key = b.key /\ a.kind = b.kind /\ a.val = b.val
Carries(as, a) == \E i \in DOMAIN as : SameAttr(as[i], a)

----------------------------------------------------------------------------
(* Claims about the pure functions *)

\* C6: for every status s, toLogLevel(s) is Info for 100 <= s < 400, Warn for
\* s <= 0 or 400 <= s < 500, Error for s >= 500, and Info for the statuses in
\* none of these ranges (1..99).
C6_LevelOfStatus ==
    res.done =>
        /\ (100 <= arg /\ arg < 400) => res.val = LevelInfo
        /\ (arg <= 0 \/ (400 <= arg /\ arg < 500)) => res.val = LevelWarn
        /\ arg >= 500 => res.val = LevelError
        /\ (0 < arg /\ arg < 100) => res.val = LevelInfo

\* the mapper has run on a status that lies in none of the ranges
C6_Witness == res.done /\ arg = 99 /\ res.val = LevelInfo

\* the headers of the collection that are to be logged under the name n
Logged(header, leak, sensitive, n) ==
    {k \in DOMAIN header :
        /\ ToLower(k) = n
        /\ Len(header[k]) > 0
        /\ (leak \/ n \notin sensitive)}

\* C2: the headers group holds no header whose lower-cased name is sensitive
\* when leak is false, and holds every other header with a non-empty value
\* sequence exactly once under its lower-cased name (so also the sensitive
\* ones when leak is true); headers without values are left out.
C2_HeadersRedacted ==
    res.done =>
        LET out == res.val.val
            names == {ToLower(k) : k \in DOMAIN arg.header} \cup {out[i].key : i \in DOMAIN out}
        IN  /\ res.val.key = "headers" /\ res.val.kind = "group"
            /\ ~arg.leak => \A i \in DOMAIN out : out[i].key \notin arg.sensitive
            /\ \A n \in names :
                  Cardinality(At(out, n)) =
                      Cardinality(Logged(arg.header, arg.leak, arg.sensitive, n))
            /\ \A k \in DOMAIN arg.header :
                  Len(arg.header[k]) = 0 /\ Logged(arg.header, arg.leak, arg.sensitive, ToLower(k)) = {}
                      => ~Has(out, ToLower(k))

\* a collection with a sensitive header, a plain one and one without values
\* has been redacted with leak off
C2_Witness ==
    /\ res.done /\ ~arg.leak
    /\ authorization \in arg.sensitive
    /\ DOMAIN arg.header = {HAuthorization, HXTag, HSetCookie}
    /\ Len(arg.header[HAuthorization]) = 1
    /\ Len(arg.header[HXTag]) = 2
    /\ Len(arg.header[HSetCookie]) = 0
    /\ Keys(res.val.val) = <<hxtag>>

----------------------------------------------------------------------------
(* Claims about the entry lifecycle *)

RecordsOf(r) == {i \in DOMAIN sink : sink[i].r = r}
IsPanic(h) == "stack" \in DOMAIN h
HeaderKeysOf(group) ==
    IF Has(group, "headers")
      THEN {Get(group, "headers").val[i].key : i \in DOMAIN Get(group, "headers").val}
      ELSE {}

\* C1: with leak off, every entry's sensitive set holds authorization, cookie
\* and set-cookie, whatever options built the middleware, and no record shows
\* one of them under request.headers or response.headers.
C1_DefaultsAlwaysSensitive ==
    (phase = "built" /\ ~opt.leak) =>
        /\ \A e \in DOMAIN entries :
              DefaultSensitive \subseteq MapKeys(heap, entries[e].sensitive)
        /\ \A i \in DOMAIN sink :
              /\ HeaderKeysOf(Get(sink[i].attrs, "request").val) \cap DefaultSensitive = {}
              /\ HeaderKeysOf(Get(sink[i].attrs, "response").val) \cap DefaultSensitive = {}

\* C3: in a request whose context holds no entry, neither helper fails the
\* caller and nothing is logged for it.
C3_HelpersNeverFail ==
    \A r \in Reqs : ctx[r] = 0 => (~failed[r] /\ RecordsOf(r) = {})

\* C4: a request has exactly one record once its Write has run and none
\* before: NewLogEntry, LogEntrySetAttr, GetLogEntry and Panic emit nothing.
C4_OneRecordPerRequest ==
    \A r \in Reqs :
        Cardinality(RecordsOf(r)) = (IF pc[r] = "done" /\ ctx[r] # 0 THEN 1 ELSE 0)

\* a request was written after an attribute was attached and a Panic
C4_Witness ==
    /\ pc[1] = "done" /\ ctx[1] # 0
    /\ Len(hist[1]) = 2 /\ IsPanic(hist[1][2])
    /\ Len(sink) = 1

\* C5: the record of a request carries id exactly when the correlation id is
\* non-empty, the request and the response group, every attribute attached
\* before Write, the stacktrace and panic attributes of a Panic, and has the
\* severity toLogLevel gives its status (Error for 500).
C5_RecordCarriesAll ==
    \A i \in DOMAIN sink :
        LET rec == sink[i]
            r == rec.r
            status == Get(Get(Get(rec.attrs, "response").val, "status").val, "code").val
        IN  /\ Has(rec.attrs, "id") <=> req[r].id # ""
            /\ Has(rec.attrs, "id") => Get(rec.attrs, "id").val = req[r].id
            /\ Cardinality(At(rec.attrs, "request")) = 1
            /\ Get(Get(rec.attrs, "request").val, "uri").val = req[r].uri
            /\ Cardinality(At(rec.attrs, "response")) = 1
            /\ \A k \in DOMAIN hist[r] :
                  IF IsPanic(hist[r][k])
                    THEN /\ Carries(rec.attrs, slogString("stacktrace", hist[r][k].stack))
                         /\ Carries(rec.attrs, slogString("panic",
                                IF hist[r][k].kind = "int"
                                  THEN ToString(hist[r][k].num) ELSE hist[r][k].str))
                    ELSE Carries(rec.attrs, hist[r][k])
            /\ rec.level = (IF status >= 500 THEN LevelError
                            ELSE IF status >= 400 \/ status <= 0 THEN LevelWarn
                            ELSE LevelInfo)
            /\ status = 500 => rec.level = LevelError

\* a request with an id was written at status 500 after two attributes and a panic
C5_Witness ==
    \E i \in DOMAIN sink :
        /\ sink[i].r = 1 /\ sink[i].level = LevelError
        /\ Len(hist[1]) = 3
        /\ hist[1][1] # hist[1][2]
        /\ IsPanic(hist[1][3])
        /\ Has(sink[i].attrs, "id")

KeysExactly(as, ks) ==
    /\ {as[i].key : i \in DOMAIN as} = ks
    /\ Len(as) = Cardinality(ks)

\* C7 as stated: with concise on, the request group of every record holds
\* exactly uri and method and the response group exactly size and status; with
\* concise off they hold host, path, proto, remote and headers, and headers,
\* as well.
C7_ConciseGroups ==
    \A i \in DOMAIN sink :
        LET request == Get(sink[i].attrs, "request").val
            response == Get(sink[i].attrs, "response").val
        IN  IF opt.concise
              THEN /\ KeysExactly(request, {"uri", "method"})
                   /\ KeysExactly(response, {"size", "status"})
              ELSE /\ KeysExactly(request, {"uri", "method", "host", "path", "proto",
                                            "remote", "headers"})
                   /\ KeysExactly(response, {"size", "status", "headers"})

\* some header of the collection is logged: it has values and is not filtered
AnyLogged(header, leak, sensitive) ==
    \E k \in DOMAIN header :
        Len(header[k]) > 0 /\ (leak \/ ToLower(k) \notin sensitive)

\* C7 as amended: with concise on, the request group of every record holds
\* exactly uri and method and the response group exactly size and status; with
\* concise off the request group also holds host, path, proto and remote, and
\* each of the two groups holds headers exactly when at least one header of
\* its collection is logged.
C7_ConciseGroupsNonEmptyHeaders ==
    \A i \in DOMAIN sink :
        LET request == Get(sink[i].attrs, "request").val
            response == Get(sink[i].attrs, "response").val
            sensitive == MapKeys(heap, opt.sensitive)
        IN  IF opt.concise
              THEN /\ KeysExactly(request, {"uri", "method"})
                   /\ KeysExactly(response, {"size", "status"})
              ELSE /\ KeysExactly(request,
                        {"uri", "method", "host", "path", "proto", "remote"}
                        \cup (IF AnyLogged(req[sink[i].r].header, opt.leak, sensitive)
                                THEN {"headers"} ELSE {}))
                   /\ KeysExactly(response,
                        {"size", "status"}
                        \cup (IF AnyLogged(sink[i].header, opt.leak, sensitive)
                                THEN {"headers"} ELSE {}))

\* a record of a middleware that is not concise has headers in its request
\* group and, its one response header being filtered, none in its response
\* group
C7_Witness ==
    /\ phase = "built" /\ ~opt.concise
    /\ \E i \in DOMAIN sink :
          /\ Has(Get(sink[i].attrs, "request").val, "headers")
          /\ ~Has(Get(sink[i].attrs, "response").val, "headers")
          /\ DOMAIN sink[i].header # {}

RECURSIVE Attached(_)
\* the attributes a request's handlers and Recoverer attached, in order
Attached(h) ==
    IF h = <<>> THEN <<>>
    ELSE (IF IsPanic(Head(h))
            THEN <<slogString("stacktrace", Head(h).stack),
                   slogString("panic", SprintfPlusV(Head(h)))>>
            ELSE <<Head(h)>>) \o Attached(Tail(h))

\* every request has an entry of its own, holding the base logger's
\* attributes, what belongs to this request and nothing else
Isolated ==
    \A r \in Reqs : ctx[r] # 0 =>
        /\ \A r2 \in Reqs \ {r} : ctx[r2] # ctx[r]
        /\ entries[ctx[r]].concise = opt.concise
        /\ entries[ctx[r]].leak = opt.leak
        /\ entries[ctx[r]].sensitive = opt.sensitive
        /\ \E order \in Orders(DOMAIN req[r].header) :
              LET l == entries[ctx[r]].l
                  own == NewLogEntry(heap, opt, req[r], order).l \o Attached(hist[r])
              IN  IF pc[r] = "done"
                    THEN /\ Len(l) = Len(own) + 1
                         /\ Keys(l) = Keys(own) \o <<"response">>
                         /\ \A j \in DOMAIN own : SameAttr(l[j], own[j])
                         /\ \E i \in RecordsOf(r) : Keys(sink[i].attrs) = Keys(l)
                    ELSE /\ Keys(l) = Keys(own)
                         /\ \A j \in DOMAIN own : SameAttr(l[j], own[j])

\* no step changes the captured configuration once the middleware is built
ConfigReadOnly ==
    phase = "built" =>
        /\ opt' = opt
        /\ MapKeys(heap', opt.sensitive) = MapKeys(heap, opt.sensitive)

\* C8: under any interleaving of the requests of one middleware, each request
\* gets a fresh entry whose attributes are its own only, and no step changes
\* the captured configuration (base logger, concise, leak, sensitive set).
C8_RequestsIsolated == []Isolated /\ [][ConfigReadOnly]_vars

\* request 1 arrived first and was written last; both attached attributes
C8_Witness ==
    /\ ctx[1] = 1 /\ ctx[2] = 2
    /\ pc[1] = "done" /\ pc[2] = "done"
    /\ Len(hist[1]) > 0 /\ Len(hist[2]) > 0
    /\ Len(sink) = 2 /\ sink[1].r = 2 /\ sink[2].r = 1

AllDone == \A f \in DOMAIN flows : flows[f].pc = "done"
AnyRaced == \E f \in DOMAIN flows : flows[f].raced
AllPresent == \A f \in DOMAIN flows : Carries(entries[ctx[1]].l, FlowAttr(f))

\* C9: once the sub-tasks of a request have all attached their attribute, the
\* handle carries all of them exactly when no two attachments overlapped: an
\* overlap loses an attribute, serialized attachments lose none.
C9_LostUpdateIffRaced == AllDone => (AllPresent <=> ~AnyRaced)

\* two attachments overlapped and an attribute is missing
C9_Witness == AllDone /\ AnyRaced /\ ~AllPresent

\* C10: applying WithSensitive(s) does not fail, leaves the caller's map as it
\* was and stores a copy of it in a map of its own.
C10_CopyAtBoundary ==
    [][ApplySensitive =>
        /\ phase' # "crashed"
        /\ MapKeys(heap', s) = MapKeys(heap, s)
        /\ opt'.sensitive \notin {NilMap, s}
        /\ MapKeys(heap', opt'.sensitive) = MapKeys(heap, s)]_vars

====
